---- MODULE Spec2Model ----
(***************************************************************************)
(* A model of the utility library uestcer/utils:                           *)
(*   - package collection: the map-backed Set (baseSet),                   *)
(*   - package slice: the reflective higher-order slice functions,         *)
(*   - package errors: the wrapping Error (baseError) and Message.         *)
(* The three packages do not interact; each has its own specification      *)
(* (Spec for collection, SpecSlice for slice, SpecErr for errors) over the *)
(* one tuple of variables.                                                 *)
(***************************************************************************)
EXTENDS Integers, Sequences, FiniteSets, TLC

\* ------------------------------------------------------------------ bounds
\* Set elements are the integers 1..MaxVal.
MaxVal == 3
\* At most MaxSets baseSet objects are alive.
MaxSets == 2
\* NewSet is called with at most MaxArgs arguments.
MaxArgs == 3

Vals == 1..MaxVal
Slots == 1..MaxSets
MapIds == 1..MaxSets

VARIABLES
    sets,   \* collection: baseSet object -> the map its field `elements` refers to (NilSet: not allocated)
    maps,   \* collection: the live Go maps, map id -> map[interface{}]bool
    cloned, \* collection: baseSet object -> whether Clone returned it
    call,   \* collection: the last method call, its arguments, result and the contents before it
    sliceArg,   \* slice: the slice argument of the calls
    funcArg,    \* slice: the function argument of the calls
    sliceCall,  \* slice: the last function called and what it returned
    errs,       \* errors: the error values built so far, in the order of their construction
    errCall,     \* errors: the last function called and what it returned
    goroutine,  \* errors: the goroutine calling into the package, [frames, more]
    stackCall   \* errors: the last stack capture, its dump and what it returned

setVars == <<sets, maps, cloned, call>>
sliceVars == <<sliceArg, funcArg, sliceCall>>
errVars == <<errs, errCall>>
stackVars == <<goroutine, stackCall>>
vars == <<sets, maps, cloned, call, sliceArg, funcArg, sliceCall, errs, errCall, goroutine, stackCall>>

\* ============================================================ collection
\* The nil Set interface value (also: a slot holding no object).
NilSet == 0

\* make(map[interface{}]bool)
MakeMap == [k \in {} |-> TRUE]

\* m[k] = true
MapPut(m, k) == [x \in DOMAIN m \cup {k} |-> IF x = k THEN TRUE ELSE m[x]]

\* delete(m, k)
MapDelete(m, k) == [x \in DOMAIN m \ {k} |-> m[x]]

\* A heap is a record [sets, maps]; s.elements of object s.
Elements(H, s) == H.maps[H.sets[s]]

\* An assignment through s.elements (the map is shared by reference).
StoreElements(H, s, m) ==
    [sets |-> H.sets, maps |-> [j \in DOMAIN H.maps |-> IF j = H.sets[s] THEN m ELSE H.maps[j]]]

\* A map value newly allocated: an id no live object refers to. `but` is the
\* object whose field is about to be overwritten with the new map (or NilSet).
NewMapId(H, but) ==
    CHOOSE i \in MapIds :
        /\ \A s \in Slots \ {but} : H.sets[s] # i
        /\ \A j \in MapIds : (\A s \in Slots \ {but} : H.sets[s] # j) => i <= j

\* &baseSet{m}: a new object whose field refers to map id `mid`.
NewObject(H, mid) ==
    LET s == CHOOSE s \in Slots : H.sets[s] = NilSet /\ \A t \in Slots : H.sets[t] = NilSet => s <= t
    IN  [heap |-> [H EXCEPT !.sets[s] = mid], ret |-> s]

\* The heap with map value m stored under a new id, and that id.
NewMap(H, but, m) ==
    LET i == NewMapId(H, but)
    IN  [heap |-> [H EXCEPT !.maps = [j \in DOMAIN H.maps \cup {i} |-> IF j = i THEN m ELSE H.maps[j]]],
         ret |-> i]

\* Maps no object refers to are garbage.
Collect(H) == [H EXCEPT !.maps = [j \in {H.sets[s] : s \in Slots} \ {NilSet} |-> H.maps[j]]]

Size(H, s) == Cardinality(DOMAIN Elements(H, s))

IsEmpty(H, s) == Size(H, s) = 0

Contains(H, s, v) == v \in DOMAIN Elements(H, s)

\* A plausible slip: Add reporting "was newly added" instead of "was already there".
AddReportsNew(H, s, v) ==
    [heap |-> StoreElements(H, s, MapPut(Elements(H, s), v)), ret |-> ~Contains(H, s, v)]

Add(H, s, v) ==
    LET ok == Contains(H, s, v)
    IN  [heap |-> StoreElements(H, s, MapPut(Elements(H, s), v)), ret |-> ok]

\* A plausible slip: Remove deleting without looking, and reporting success.
RemoveAlwaysTrue(H, s, v) ==
    [heap |-> StoreElements(H, s, MapDelete(Elements(H, s), v)), ret |-> TRUE]

Remove(H, s, v) ==
    LET ok == Contains(H, s, v)
    IN  [heap |-> IF ok THEN StoreElements(H, s, MapDelete(Elements(H, s), v)) ELSE H,
         ret |-> ok]

Clear(H, s) ==
    LET m == NewMap(H, s, MakeMap)
    IN  [m.heap EXCEPT !.sets[s] = m.ret]

\* The body of each `for k := range` loop of the package that writes to the heap,
\* applied to key k.
Body(H, b, k) ==
    CASE b.loop = "NewSet"    -> Add(H, b.set, b.elements[k]).heap
      [] b.loop = "Union"     -> Add(H, b.s0, k).heap
      [] b.loop = "Intersect" -> IF ~Contains(H, b.s1, k)
                                 THEN StoreElements(H, b.s, MapDelete(Elements(H, b.s), k))
                                 ELSE H
      [] b.loop = "Subtract"  -> Remove(H, b.s, k).heap
      [] b.loop = "Map"       -> Add(H, b.result, b.f[k]).heap
      [] b.loop = "Filter"    -> IF b.f[k] THEN Add(H, b.result, k).heap ELSE H

\* Go's `for k := range m` over map id `mid`, whose body may write to that very
\* map: the order is unspecified, an entry removed before it is reached is not
\* produced, an entry created during the loop may be produced or skipped. The
\* set of heaps the loop can end with; `start` are the keys at loop entry.
RECURSIVE RangeMap(_, _, _, _, _)
RangeMap(H, mid, start, visited, b) ==
    LET todo == DOMAIN H.maps[mid] \ visited
    IN  (IF todo \cap start = {} THEN {H} ELSE {})
        \cup UNION { RangeMap(Body(H, b, k), mid, start, visited \cup {k}, b) : k \in todo }

\* Go's `for _, e := range elements` over a slice: in order.
RECURSIVE RangeSlice(_, _, _)
RangeSlice(H, i, b) ==
    IF i > Len(b.elements) THEN H ELSE RangeSlice(Body(H, b, i), i + 1, b)

NewSet(H, elements) ==
    LET m == NewMap(H, NilSet, MakeMap)
        o == NewObject(m.heap, m.ret)
    IN  [heap |-> RangeSlice(o.heap, 1, [loop |-> "NewSet", set |-> o.ret, elements |-> elements]),
         ret |-> o.ret]

Foreach(H, s, b) == RangeMap(H, H.sets[s], DOMAIN Elements(H, s), {}, b)

\* A plausible slip: Union walking the receiver instead of the argument.
UnionWalksReceiver(H, s0, s1) ==
    IF s1 = NilSet THEN {H} ELSE Foreach(H, s0, [loop |-> "Union", s0 |-> s0])

Union(H, s0, s1) ==
    IF s1 = NilSet THEN {H} ELSE Foreach(H, s1, [loop |-> "Union", s0 |-> s0])

\* A plausible slip: Intersect with the negation dropped (which is Subtract).
IntersectNegationDropped(H, s, s1) ==
    IF s1 = NilSet THEN {H} ELSE Foreach(H, s1, [loop |-> "Subtract", s |-> s])

Intersect(H, s, s1) ==
    IF s1 = NilSet THEN {H}
    ELSE RangeMap(H, H.sets[s], DOMAIN Elements(H, s), {}, [loop |-> "Intersect", s |-> s, s1 |-> s1])

Subtract(H, s, s1) ==
    IF s1 = NilSet THEN {H} ELSE Foreach(H, s1, [loop |-> "Subtract", s |-> s])

IsSubset(H, s, s1) ==
    IF s1 = NilSet \/ Size(H, s) > Size(H, s1) THEN FALSE
    ELSE \A k \in DOMAIN Elements(H, s) : Contains(H, s1, k)

\* A plausible slip: IsEqual without the comparison of the sizes.
IsEqualNoSize(H, s0, s1) ==
    IF s1 = NilSet THEN FALSE
    ELSE \A k \in DOMAIN Elements(H, s0) : Contains(H, s1, k)

IsEqual(H, s0, s1) ==
    IF s1 = NilSet \/ Size(H, s0) # Size(H, s1) THEN FALSE
    ELSE \A k \in DOMAIN Elements(H, s0) : Contains(H, s1, k)

\* A plausible slip: Clone handing out the receiver's own map.
CloneSharesMap(H, s) == NewObject(H, H.sets[s])

Clone(H, s) ==
    LET m == NewMap(H, NilSet, [k \in DOMAIN Elements(H, s) |-> TRUE])
    IN  NewObject(m.heap, m.ret)

\* Map and Filter: the set of (heap, result) pairs the loop can end with.
Map(H, s, f) ==
    LET r == NewSet(H, <<>>)
    IN  { [heap |-> G, ret |-> r.ret] :
            G \in RangeMap(r.heap, H.sets[s], DOMAIN Elements(H, s), {},
                           [loop |-> "Map", result |-> r.ret, f |-> f]) }

Filter(H, s, f) ==
    LET r == NewSet(H, <<>>)
    IN  { [heap |-> G, ret |-> r.ret] :
            G \in RangeMap(r.heap, H.sets[s], DOMAIN Elements(H, s), {},
                           [loop |-> "Filter", result |-> r.ret, f |-> f]) }

\* ------------------------------------------------- the collection program
Heap == [sets |-> sets, maps |-> maps]

Live == {s \in Slots : sets[s] # NilSet}

\* The elements of every object (none for a slot holding no object).
Keys(H, s) == IF H.sets[s] = NilSet THEN {} ELSE DOMAIN Elements(H, s)

Snapshot == [s \in Slots |-> Keys(Heap, s)]

ArgSeqs == UNION { [1..n -> Vals] : n \in 0..MaxArgs }

\* The call record: op, receiver, Set argument, value argument, boolean result,
\* object result, and the contents of every object before the call.
Called(op, recv, arg, val, ret, new) ==
    [op |-> op, recv |-> recv, arg |-> arg, val |-> val, ret |-> ret, new |-> new, pre |-> Snapshot]

Commit(H) ==
    /\ sets' = H.sets
    /\ maps' = Collect(H).maps
    /\ UNCHANGED <<sliceVars, errVars, stackVars>>

\* No call made, or its result consumed.
NoCall ==
    [op |-> "none", recv |-> NilSet, arg |-> NilSet, val |-> 0, ret |-> FALSE,
     new |-> NilSet, pre |-> [s \in Slots |-> {}]]

\* The caller is between two calls.
Ready == call.op = "none"

\* The packages slice and errors at rest, while the collection program runs.
SliceIdle ==
    /\ sliceArg = [kind |-> "slice", elems |-> <<>>]
    /\ funcArg = [kind |-> "func", fn |-> <<>>]
    /\ sliceCall = [op |-> "none"]

ErrIdle ==
    /\ errs = <<>>
    /\ errCall = [op |-> "none"]
    /\ goroutine = [frames |-> <<>>, more |-> FALSE]
    /\ stackCall = [op |-> "none"]

Init ==
    /\ SliceIdle
    /\ ErrIdle
    /\ sets = [s \in Slots |-> NilSet]
    /\ maps = [j \in {} |-> MakeMap]
    /\ cloned = [s \in Slots |-> FALSE]
    /\ call = NoCall

CallNewSet ==
    /\ Ready
    /\ \E elements \in ArgSeqs :
        /\ Live # Slots
        /\ LET r == NewSet(Heap, elements)
           IN  /\ Commit(r.heap)
               /\ cloned' = [cloned EXCEPT ![r.ret] = FALSE]
               /\ call' = Called("NewSet", NilSet, NilSet, 0, FALSE, r.ret)

CallContains ==
    /\ Ready
    /\ \E s \in Live, v \in Vals :
        /\ call' = Called("Contains", s, NilSet, v, Contains(Heap, s, v), NilSet)
        /\ UNCHANGED <<sets, maps, cloned, sliceVars, errVars, stackVars>>

CallAdd ==
    /\ Ready
    /\ \E s \in Live, v \in Vals :
        LET r == Add(Heap, s, v)
        IN  /\ Commit(r.heap)
            /\ call' = Called("Add", s, NilSet, v, r.ret, NilSet)
            /\ UNCHANGED cloned

CallRemove ==
    /\ Ready
    /\ \E s \in Live, v \in Vals :
        LET r == Remove(Heap, s, v)
        IN  /\ Commit(r.heap)
            /\ call' = Called("Remove", s, NilSet, v, r.ret, NilSet)
            /\ UNCHANGED cloned

CallClear ==
    /\ Ready
    /\ \E s \in Live :
        /\ Commit(Clear(Heap, s))
        /\ call' = Called("Clear", s, NilSet, 0, FALSE, NilSet)
        /\ UNCHANGED cloned

CallUnion ==
    /\ Ready
    /\ \E s0 \in Live, s1 \in Live \cup {NilSet} :
        \E G \in Union(Heap, s0, s1) :
            /\ Commit(G)
            /\ call' = Called("Union", s0, s1, 0, FALSE, NilSet)
            /\ UNCHANGED cloned

CallIntersect ==
    /\ Ready
    /\ \E s \in Live, s1 \in Live \cup {NilSet} :
        \E G \in Intersect(Heap, s, s1) :
            /\ Commit(G)
            /\ call' = Called("Intersect", s, s1, 0, FALSE, NilSet)
            /\ UNCHANGED cloned

CallSubtract ==
    /\ Ready
    /\ \E s \in Live, s1 \in Live \cup {NilSet} :
        \E G \in Subtract(Heap, s, s1) :
            /\ Commit(G)
            /\ call' = Called("Subtract", s, s1, 0, FALSE, NilSet)
            /\ UNCHANGED cloned

CallIsSubset ==
    /\ Ready
    /\ \E s \in Live, s1 \in Live \cup {NilSet} :
        /\ call' = Called("IsSubset", s, s1, 0, IsSubset(Heap, s, s1), NilSet)
        /\ UNCHANGED <<sets, maps, cloned, sliceVars, errVars, stackVars>>

CallIsEqual ==
    /\ Ready
    /\ \E s0 \in Live, s1 \in Live \cup {NilSet} :
        /\ call' = Called("IsEqual", s0, s1, 0, IsEqual(Heap, s0, s1), NilSet)
        /\ UNCHANGED <<sets, maps, cloned, sliceVars, errVars, stackVars>>

CallClone ==
    /\ Ready
    /\ \E s \in Live :
        /\ Live # Slots
        /\ LET r == Clone(Heap, s)
           IN  /\ Commit(r.heap)
               /\ cloned' = [cloned EXCEPT ![r.ret] = TRUE]
               /\ call' = Called("Clone", s, NilSet, 0, FALSE, r.ret)

CallMap ==
    /\ Ready
    /\ \E s \in Live, f \in [Vals -> Vals] :
        /\ Live # Slots
        /\ \E r \in Map(Heap, s, f) :
               /\ Commit(r.heap)
               /\ cloned' = [cloned EXCEPT ![r.ret] = FALSE]
               /\ call' = Called("Map", s, NilSet, 0, FALSE, r.ret)

CallFilter ==
    /\ Ready
    /\ \E s \in Live, f \in [Vals -> BOOLEAN] :
        /\ Live # Slots
        /\ \E r \in Filter(Heap, s, f) :
               /\ Commit(r.heap)
               /\ cloned' = [cloned EXCEPT ![r.ret] = FALSE]
               /\ call' = Called("Filter", s, NilSet, 0, FALSE, r.ret)

\* The caller has looked at the result and goes on to its next call.
Continue ==
    /\ ~Ready
    /\ call' = NoCall
    /\ UNCHANGED <<sets, maps, cloned, sliceVars, errVars, stackVars>>

Next ==
    \/ CallNewSet
    \/ CallContains
    \/ CallAdd
    \/ CallRemove
    \/ CallClear
    \/ CallUnion
    \/ CallIntersect
    \/ CallSubtract
    \/ CallIsSubset
    \/ CallIsEqual
    \/ CallClone
    \/ CallMap
    \/ CallFilter
    \/ Continue

Spec == Init /\ [][Next]_vars

\* ----------------------------------------------------- collection: claims
\* C2: Add(v) returns true iff v was a member before the call; afterwards the
\* set contains v and everything it contained, and Size() grew by exactly 1
\* when the result is false and is unchanged when it is true.
C2_AddContract ==
    call.op = "Add" =>
        LET s == call.recv
            v == call.val
        IN  /\ call.ret = (v \in call.pre[s])
            /\ Contains(Heap, s, v)
            /\ call.pre[s] \subseteq Keys(Heap, s)
            /\ Size(Heap, s) = Cardinality(call.pre[s]) + (IF call.ret THEN 0 ELSE 1)

\* A fresh element added to a set that already held another one.
C2_Witness ==
    /\ call.op = "Add"
    /\ ~call.ret
    /\ call.pre[call.recv] # {}
    /\ Size(Heap, call.recv) = Cardinality(call.pre[call.recv]) + 1

\* C3: Remove(v) returns true iff v was a member before the call; afterwards
\* the set does not contain v and holds every other element it held; removing
\* an absent element returns false and leaves the set and its Size() as they were.
C3_RemoveContract ==
    call.op = "Remove" =>
        LET s == call.recv
            v == call.val
        IN  /\ call.ret = (v \in call.pre[s])
            /\ ~Contains(Heap, s, v)
            /\ Keys(Heap, s) = call.pre[s] \ {v}
            /\ ~call.ret => /\ Keys(Heap, s) = call.pre[s]
                            /\ Size(Heap, s) = Cardinality(call.pre[s])

\* An absent element removed from a set that holds others: false, nothing changed.
C3_Witness ==
    /\ call.op = "Remove"
    /\ ~call.ret
    /\ call.pre[call.recv] # {}
    /\ Keys(Heap, call.recv) = call.pre[call.recv]

\* C4: after A.Union(B), B possibly A itself, A holds v iff v was in A or in B
\* before the call, and B holds what it held; with B nil, A is unchanged.
C4_UnionContract ==
    call.op = "Union" =>
        LET a == call.recv
            b == call.arg
        IN  IF b = NilSet
            THEN Keys(Heap, a) = call.pre[a]
            ELSE /\ Keys(Heap, a) = call.pre[a] \cup call.pre[b]
                 /\ a # b => Keys(Heap, b) = call.pre[b]
                 /\ a = b => Keys(Heap, b) = call.pre[a]

\* A union of two distinct sets, each holding an element the other lacks.
C4_Witness ==
    /\ call.op = "Union"
    /\ call.arg # NilSet
    /\ call.arg # call.recv
    /\ call.pre[call.arg] \ call.pre[call.recv] # {}
    /\ call.pre[call.recv] \ call.pre[call.arg] # {}

\* C5: after A.Intersect(B), B possibly A itself, A holds exactly the values
\* that were in both A and B before the call (a subset of both), whatever the
\* order in which the loop deletes from the map it walks; B holds what it
\* held; with B nil, A is unchanged.
C5_IntersectContract ==
    call.op = "Intersect" =>
        LET a == call.recv
            b == call.arg
        IN  IF b = NilSet
            THEN Keys(Heap, a) = call.pre[a]
            ELSE /\ Keys(Heap, a) = call.pre[a] \cap call.pre[b]
                 /\ Keys(Heap, a) \subseteq call.pre[a]
                 /\ Keys(Heap, a) \subseteq call.pre[b]
                 /\ a # b => Keys(Heap, b) = call.pre[b]
                 /\ a = b => Keys(Heap, b) = call.pre[a]

\* An intersection that deleted at least two elements and kept at least one.
C5_Witness ==
    /\ call.op = "Intersect"
    /\ call.arg # NilSet
    /\ call.arg # call.recv
    /\ Cardinality(call.pre[call.recv] \ call.pre[call.arg]) >= 2
    /\ Keys(Heap, call.recv) # {}

\* C6: A.IsEqual(B) is true iff the sizes agree and A.IsSubset(B) and
\* B.IsSubset(A); so it is reflexive and symmetric, and false for B nil or of
\* another size.
C6_IsEqualContract ==
    call.op = "IsEqual" =>
        LET a == call.recv
            b == call.arg
        IN  IF b = NilSet
            THEN call.ret = FALSE
            ELSE /\ call.ret = (/\ Size(Heap, a) = Size(Heap, b)
                                /\ IsSubset(Heap, a, b)
                                /\ IsSubset(Heap, b, a))
                 /\ call.ret = (Keys(Heap, a) = Keys(Heap, b))
                 /\ call.ret = IsEqual(Heap, b, a)
                 /\ a = b => call.ret
                 /\ Size(Heap, a) # Size(Heap, b) => ~call.ret

\* Two distinct objects of two elements each found equal.
C6_Witness ==
    /\ call.op = "IsEqual"
    /\ call.ret
    /\ call.arg # call.recv
    /\ Size(Heap, call.recv) = 2

\* C7: Clone returns a set equal to the receiver, and the sets returned by
\* Clone, Map and Filter share no storage with it: no two objects refer to one
\* map, and a call changes the contents of no object but its receiver (and the
\* object it returns), so no sequence of calls on one set changes another.
C7_CloneIndependent ==
    /\ call.op = "Clone" =>
            /\ IsEqual(Heap, call.new, call.recv)
            /\ IsEqual(Heap, call.recv, call.new)
    /\ call.op \in {"Clone", "Map", "Filter"} => Keys(Heap, call.recv) = call.pre[call.recv]
    /\ \A s \in Live, t \in Live : s # t => sets[s] # sets[t]
    /\ ~Ready => \A s \in Live : (s # call.recv /\ s # call.new) => Keys(Heap, s) = call.pre[s]

\* An element added to a clone, whose source does not hold it afterwards.
C7_Witness ==
    /\ call.op = "Add"
    /\ ~call.ret
    /\ cloned[call.recv]
    /\ \E s \in Live : s # call.recv /\ call.pre[s] = call.pre[call.recv] /\ ~Contains(Heap, s, call.val)

\* ================================================================= slice
\* A slice argument is [kind |-> "slice", elems |-> <<...>>] or a pointer to
\* one, [kind |-> "ptr", elem |-> v]; a function argument is
\* [kind |-> "func", fn |-> f] or a pointer to one. Elements are 1..MaxElem.
\* An argument of another kind is [kind |-> "int", val |-> n], a pointer to
\* any value, or the nil interface{}, [kind |-> "invalid"]. A call that
\* panics yields [panic |-> message].
MaxElem == 3
MaxLen == 3

Elems == 1..MaxElem

\* The nil interface{} value.
NilValue == 0

\* panic(message), as the value of the call that raised it.
Panic(message) == [panic |-> message]

Panicked(r) == "panic" \in DOMAIN r

reflectSlice(i) ==
    LET v == IF i.kind = "ptr" THEN i.elem ELSE i
    IN  IF v.kind # "slice"
        THEN Panic("utils/slice: argument type is not slice, " \o v.kind \o ".")
        ELSE v

reflectFunc(f) ==
    LET v == IF f.kind = "ptr" THEN f.elem ELSE f
    IN  IF v.kind # "func"
        THEN Panic("utils/slice: argument type is not func, " \o v.kind \o ".")
        ELSE v

\* reflect.Value.Len, reflect.Value.Index (from 0), reflect.Value.Call(...)[0].Bool()
ValueLen(v) == Len(v.elems)

ValueIndex(v, i) == v.elems[i + 1]

ValueCall(v, e) == v.fn[e]

\* make([]interface{}, 0) and append(result, e): a non-nil slice.
MakeSlice == [isNil |-> FALSE, elems |-> <<>>]

AppendSlice(result, e) == [isNil |-> FALSE, elems |-> Append(result.elems, e)]

\* Exist; `calls` lists the indexes f was called on, in order.
RECURSIVE ExistLoop(_, _, _, _)
ExistLoop(v1, v2, i, calls) ==
    IF i < ValueLen(v1)
    THEN IF ValueCall(v2, ValueIndex(v1, i))
         THEN [ret |-> TRUE, calls |-> Append(calls, i)]
         ELSE ExistLoop(v1, v2, i + 1, Append(calls, i))
    ELSE [ret |-> FALSE, calls |-> calls]

\* A plausible slip: Exist remembering a match and walking on to the end.
RECURSIVE ExistKeepsGoingLoop(_, _, _, _, _)
ExistKeepsGoingLoop(v1, v2, i, calls, found) ==
    IF i < ValueLen(v1)
    THEN ExistKeepsGoingLoop(v1, v2, i + 1, Append(calls, i),
                             found \/ ValueCall(v2, ValueIndex(v1, i)))
    ELSE [ret |-> found, calls |-> calls]

ExistKeepsGoing(i, f) ==
    LET v1 == reflectSlice(i)
        v2 == reflectFunc(f)
    IN  IF Panicked(v1) THEN v1
        ELSE IF Panicked(v2) THEN v2
        ELSE ExistKeepsGoingLoop(v1, v2, 0, <<>>, FALSE)

Exist(i, f) ==
    LET v1 == reflectSlice(i)
        v2 == reflectFunc(f)
    IN  IF Panicked(v1) THEN v1
        ELSE IF Panicked(v2) THEN v2
        ELSE ExistLoop(v1, v2, 0, <<>>)

RECURSIVE SliceFilterLoop(_, _, _, _)
SliceFilterLoop(v1, v2, i, result) ==
    IF i < ValueLen(v1)
    THEN LET e == ValueIndex(v1, i)
         IN  IF ValueCall(v2, e)
             THEN SliceFilterLoop(v1, v2, i + 1, AppendSlice(result, e))
             ELSE SliceFilterLoop(v1, v2, i + 1, result)
    ELSE result

\* A plausible slip: Filter starting its walk at index 1.
SliceFilterFromOne(i, f) ==
    LET v1 == reflectSlice(i)
        v2 == reflectFunc(f)
    IN  IF Panicked(v1) THEN v1
        ELSE IF Panicked(v2) THEN v2
        ELSE SliceFilterLoop(v1, v2, 1, MakeSlice)

\* slice.Filter (Filter names the Set method above).
SliceFilter(i, f) ==
    LET v1 == reflectSlice(i)
        v2 == reflectFunc(f)
    IN  IF Panicked(v1) THEN v1
        ELSE IF Panicked(v2) THEN v2
        ELSE SliceFilterLoop(v1, v2, 0, MakeSlice)

RECURSIVE IndexLoop(_, _, _)
IndexLoop(v1, v2, i) ==
    IF i < ValueLen(v1)
    THEN IF ValueCall(v2, ValueIndex(v1, i)) THEN i ELSE IndexLoop(v1, v2, i + 1)
    ELSE -1

\* Index; [ret |-> n] when it returns n.
Index(i, f) ==
    LET v1 == reflectSlice(i)
        v2 == reflectFunc(f)
    IN  IF Panicked(v1) THEN v1
        ELSE IF Panicked(v2) THEN v2
        ELSE [ret |-> IndexLoop(v1, v2, 0)]

\* for i := v1.Len() - 1; i > 0; i--
RECURSIVE IndexLastLoop(_, _, _)
IndexLastLoop(v1, v2, i) ==
    IF i > 0
    THEN IF ValueCall(v2, ValueIndex(v1, i)) THEN i ELSE IndexLastLoop(v1, v2, i - 1)
    ELSE -1

IndexLast(i, f) ==
    LET v1 == reflectSlice(i)
        v2 == reflectFunc(f)
    IN  IF Panicked(v1) THEN v1
        ELSE IF Panicked(v2) THEN v2
        ELSE [ret |-> IndexLastLoop(v1, v2, ValueLen(v1) - 1)]

RECURSIVE FindLoop(_, _, _)
FindLoop(v1, v2, i) ==
    IF i < ValueLen(v1)
    THEN LET e == ValueIndex(v1, i)
         IN  IF ValueCall(v2, e) THEN [ok |-> TRUE, value |-> e] ELSE FindLoop(v1, v2, i + 1)
    ELSE [ok |-> FALSE, value |-> NilValue]

Find(i, f) ==
    LET v1 == reflectSlice(i)
        v2 == reflectFunc(f)
    IN  IF Panicked(v1) THEN v1
        ELSE IF Panicked(v2) THEN v2
        ELSE FindLoop(v1, v2, 0)

\* for i := v1.Len() - 1; i > 0; i--
RECURSIVE FindLastLoop(_, _, _)
FindLastLoop(v1, v2, i) ==
    IF i > 0
    THEN LET e == ValueIndex(v1, i)
         IN  IF ValueCall(v2, e) THEN [ok |-> TRUE, value |-> e] ELSE FindLastLoop(v1, v2, i - 1)
    ELSE [ok |-> FALSE, value |-> NilValue]

FindLast(i, f) ==
    LET v1 == reflectSlice(i)
        v2 == reflectFunc(f)
    IN  IF Panicked(v1) THEN v1
        ELSE IF Panicked(v2) THEN v2
        ELSE FindLastLoop(v1, v2, ValueLen(v1) - 1)

\* ------------------------------------------------------ the slice program
SliceValues == { [kind |-> "slice", elems |-> s] : s \in UNION { [1..n -> Elems] : n \in 0..MaxLen } }

\* Arguments that are neither a slice nor a function, nor a pointer to one.
OtherArgs ==
    { [kind |-> "invalid"], [kind |-> "int", val |-> 5],
      [kind |-> "ptr", elem |-> [kind |-> "int", val |-> 5]],
      [kind |-> "ptr", elem |-> [kind |-> "ptr", elem |-> [kind |-> "slice", elems |-> <<1, 2>>]]] }

SliceArgs == SliceValues \cup { [kind |-> "ptr", elem |-> v] : v \in SliceValues } \cup OtherArgs

FuncValues == { [kind |-> "func", fn |-> f] : f \in [Elems -> BOOLEAN] }

FuncArgs ==
    FuncValues \cup { [kind |-> "ptr", elem |-> v] : v \in FuncValues } \cup OtherArgs
        \cup { [kind |-> "slice", elems |-> <<1, 2>>] }

\* The package collection at rest, while another program runs.
SetIdle ==
    /\ sets = [s \in Slots |-> NilSet]
    /\ maps = [j \in {} |-> MakeMap]
    /\ cloned = [s \in Slots |-> FALSE]
    /\ call = NoCall

SliceInit ==
    /\ SetIdle
    /\ ErrIdle
    /\ sliceArg \in SliceArgs
    /\ funcArg \in FuncArgs
    /\ sliceCall = [op |-> "none"]

SliceFrame == UNCHANGED <<sliceArg, funcArg, setVars, errVars, stackVars>>

\* What the caller observes of a call: its results, or its panic.
CallExist ==
    /\ sliceCall' = LET r == Exist(sliceArg, funcArg)
                    IN  IF Panicked(r) THEN [op |-> "Exist", panic |-> r.panic]
                        ELSE [op |-> "Exist", ret |-> r.ret, calls |-> r.calls]
    /\ SliceFrame

CallSliceFilter ==
    /\ sliceCall' = LET r == SliceFilter(sliceArg, funcArg)
                    IN  IF Panicked(r) THEN [op |-> "Filter", panic |-> r.panic]
                        ELSE [op |-> "Filter", ret |-> r]
    /\ SliceFrame

CallIndex ==
    /\ sliceCall' = LET r == Index(sliceArg, funcArg)
                    IN  IF Panicked(r) THEN [op |-> "Index", panic |-> r.panic]
                        ELSE [op |-> "Index", ret |-> r.ret]
    /\ SliceFrame

CallIndexLast ==
    /\ sliceCall' = LET r == IndexLast(sliceArg, funcArg)
                    IN  IF Panicked(r) THEN [op |-> "IndexLast", panic |-> r.panic]
                        ELSE [op |-> "IndexLast", ret |-> r.ret]
    /\ SliceFrame

CallFind ==
    /\ sliceCall' = LET r == Find(sliceArg, funcArg)
                    IN  IF Panicked(r) THEN [op |-> "Find", panic |-> r.panic]
                        ELSE [op |-> "Find", ok |-> r.ok, value |-> r.value]
    /\ SliceFrame

CallFindLast ==
    /\ sliceCall' = LET r == FindLast(sliceArg, funcArg)
                    IN  IF Panicked(r) THEN [op |-> "FindLast", panic |-> r.panic]
                        ELSE [op |-> "FindLast", ok |-> r.ok, value |-> r.value]
    /\ SliceFrame

SliceNext ==
    \/ CallExist
    \/ CallSliceFilter
    \/ CallIndex
    \/ CallIndexLast
    \/ CallFind
    \/ CallFindLast

SpecSlice == SliceInit /\ [][SliceNext]_vars

\* ---------------------------------------------------------- slice: claims
\* The elements of the slice argument and the predicate, as the caller sees them.
Returned == sliceCall.op # "none" /\ ~Panicked(sliceCall)

TheSlice == reflectSlice(sliceArg).elems

Holds(e) == reflectFunc(funcArg).fn[e]

\* The (0-based) indexes whose element satisfies the predicate.
Matches == { i \in 0..(Len(TheSlice) - 1) : Holds(TheSlice[i + 1]) }

Greatest(S) == CHOOSE i \in S : \A j \in S : j <= i

Smallest(S) == CHOOSE i \in S : \A j \in S : i <= j

\* The predicate negated, in the same wrapping as the function argument.
NotFunc == [kind |-> "func", fn |-> [e \in Elems |-> ~Holds(e)]]

\* C1: IndexLast returns the greatest index whose element satisfies f, and -1
\* only when none does; FindLast returns (true, S[i]) for that index, and
\* (false, nil) only when none does; an only match at index 0 included.
C1_LastMatch ==
    /\ (Returned /\ sliceCall.op = "IndexLast") =>
           sliceCall.ret = (IF Matches = {} THEN -1 ELSE Greatest(Matches))
    /\ (Returned /\ sliceCall.op = "FindLast") =>
           IF Matches = {}
           THEN sliceCall.ok = FALSE /\ sliceCall.value = NilValue
           ELSE sliceCall.ok = TRUE /\ sliceCall.value = TheSlice[Greatest(Matches) + 1]

\* C8: slice.Filter returns exactly the elements that satisfy f, in their
\* order, as a non-nil slice; each satisfies f; and the lengths of Filter(S, f)
\* and Filter(S, not f) add up to len(S).
C8_FilterContract ==
    (Returned /\ sliceCall.op = "Filter") =>
        /\ sliceCall.ret.elems = SelectSeq(TheSlice, Holds)
        /\ sliceCall.ret.isNil = FALSE
        /\ \A j \in 1..Len(sliceCall.ret.elems) : Holds(sliceCall.ret.elems[j])
        /\ Len(sliceCall.ret.elems) + Len(SliceFilter(sliceArg, NotFunc).elems) = Len(TheSlice)

\* A filtering that kept the first element and another one, and dropped one in between.
C8_Witness ==
    /\ Returned
    /\ sliceCall.op = "Filter"
    /\ Len(TheSlice) = 3
    /\ Matches = {0, 2}
    /\ Len(sliceCall.ret.elems) = 2

\* C9: Exist is true iff Find returns (true, x); x is then the element at the
\* smallest index satisfying f, the index Index returns; when Exist is false
\* Find returns (false, nil) and Index -1. Exist calls f on the elements up to
\* the first that satisfies it and on none after.
C9_ExistFindIndex ==
    /\ (Returned /\ sliceCall.op = "Exist") =>
           /\ sliceCall.ret = Find(sliceArg, funcArg).ok
           /\ sliceCall.ret = (Matches # {})
           /\ sliceCall.ret = (Index(sliceArg, funcArg).ret # -1)
           /\ sliceCall.calls =
                  [j \in 1..(IF Matches = {} THEN Len(TheSlice) ELSE Smallest(Matches) + 1) |-> j - 1]
    /\ (Returned /\ sliceCall.op = "Find") =>
           /\ sliceCall.ok = Exist(sliceArg, funcArg).ret
           /\ IF Matches = {}
              THEN sliceCall.ok = FALSE /\ sliceCall.value = NilValue
              ELSE /\ sliceCall.ok = TRUE
                   /\ sliceCall.value = TheSlice[Smallest(Matches) + 1]
                   /\ sliceCall.value = TheSlice[Index(sliceArg, funcArg).ret + 1]
    /\ (Returned /\ sliceCall.op = "Index") =>
           sliceCall.ret = (IF Matches = {} THEN -1 ELSE Smallest(Matches))

\* Exist found a match in the middle of a slice with a later match, and stopped there.
C9_Witness ==
    /\ Returned
    /\ sliceCall.op = "Exist"
    /\ sliceCall.ret
    /\ Matches = {1, 2}
    /\ sliceCall.calls = <<0, 1>>

\* ================================================================ errors
\* An error value is a baseError,
\*   [kind |-> "baseError", message, stack, context, code, inner],
\* or an error of another package: [kind |-> "error", text] (such as the value
\* of fmt.Errorf) or [kind |-> "runtime", text] (a runtime.Error). Values are
\* named by their position in errs; NilErr is the nil interface.
MaxErrs == 3

DefaultErrCode == -1

NilErr == 0

\* The messages, codes and texts the callers pass.
Msgs == {"outer", "middle"}

Codes == {DefaultErrCode, 404}

ForeignTexts == {"inner"}

RuntimeTexts == {"runtime error: index out of range"}

\* ------------------------------------------------------------ stack capture
\* A []byte is a sequence of one-character strings. A goroutine is
\* [frames, more]: the functions on its call stack, the innermost first, and
\* whether the dump goes on after it (an empty line, then another goroutine).
MaxFrames == 3

MaxSkip == 4

\* len(buf) of the first buffer handed to runtime.Stack.
InitialBufLen == 128

\* The skip depth StackTrace passes.
PublicSkip == 3

Newline == "\n"

\* string(b)
RECURSIVE String(_)
String(b) == IF b = <<>> THEN "" ELSE b[1] \o String(Tail(b))

\* The functions of the callers, and the functions of this package on the
\* stack while a constructor captures it.
CallerFuncs == { <<"f">>, <<"g", "o">> }

Func_stackTrace == <<"s", "t", "a", "c", "k", "T", "r", "a", "c", "e">>

Func_StackTrace == <<"S", "t", "a", "c", "k", "T", "r", "a", "c", "e">>

Constructors ==
    { <<"N", "e", "w">>, <<"N", "e", "w", "B", "y", "C", "o", "d", "e">>,
      <<"N", "e", "w", "f">>, <<"N", "e", "w", "f", "B", "y", "C", "o", "d", "e">>,
      <<"W", "r", "a", "p">>, <<"W", "r", "a", "p", "B", "y", "C", "o", "d", "e">>,
      <<"W", "r", "a", "p", "f">>, <<"W", "r", "a", "p", "f", "B", "y", "C", "o", "d", "e">> }

\* The text the runtime writes for a goroutine: a header line, then two lines
\* per frame (the function, then a tab and the file position).
GoroutineHeader(id) == <<"g", "o", "r", "o", "u", "t", "i", "n", "e", " ", id, ":">>

FrameLines(fn) == << fn \o <<"(", ")">>, <<"\t">> \o fn \o <<".", "g", "o">> >>

RECURSIVE FramesLines(_)
FramesLines(frames) ==
    IF frames = <<>> THEN <<>> ELSE FrameLines(frames[1]) \o FramesLines(Tail(frames))

\* The lines of the dump of goroutine g; with g.more, an empty line and the
\* dump of another goroutine follow. runtime.Stack(buf, false) writes the
\* calling goroutine alone; the longer dump is the case in which the scan of
\* stackTrace stops at an empty line.
DumpLines(g) ==
    <<GoroutineHeader("1")>> \o FramesLines(g.frames)
        \o (IF g.more THEN <<<<>>, GoroutineHeader("2")>> \o FrameLines(<<"h">>) ELSE <<>>)

\* Every line followed by a newline.
RECURSIVE Text(_)
Text(lines) ==
    IF lines = <<>> THEN <<>> ELSE lines[1] \o <<Newline>> \o Text(Tail(lines))

\* A []byte value is [arr, len]: the bytes of its array from its first one
\* on (cap of them) and its length. ZeroByte is the byte 0 of a fresh array.
ZeroByte == "\\0"

\* make([]byte, size)
MakeBytes(size) == [arr |-> [k \in 1..size |-> ZeroByte], len |-> size]

Cap(b) == Len(b.arr)

\* The bytes b holds: b[0], ..., b[len(b)-1].
Bytes(b) == SubSeq(b.arr, 1, b.len)

\* b[lo:hi] is in range (it panics otherwise); b[lo:] is b[lo:len(b)].
InRange(b, lo, hi) == 0 <= lo /\ lo <= hi /\ hi <= Cap(b)

\* b[lo:hi], indices counted from 0
Slice(b, lo, hi) == [arr |-> SubSeq(b.arr, lo + 1, Cap(b)), len |-> hi - lo]

\* runtime.Stack(buf, false) called by goroutine g: the number of bytes
\* written and buf after it.
runtime_Stack(g, buf) ==
    LET dump == Text(DumpLines(g))
        n == IF Len(dump) <= buf.len THEN Len(dump) ELSE buf.len
    IN  [n |-> n,
         buf |-> [arr |-> [k \in 1..Cap(buf) |-> IF k <= n THEN dump[k] ELSE buf.arr[k]],
                  len |-> buf.len]]

\* The loop that doubles the buffer until the dump fits: buf when it ends.
RECURSIVE StackBuf(_, _)
StackBuf(g, size) ==
    LET r == runtime_Stack(g, MakeBytes(size))
    IN  IF r.n < r.buf.len THEN Slice(r.buf, 0, r.n) ELSE StackBuf(g, r.buf.len * 2)

\* bytes.IndexByte(b, c)
IndexByte(b, c) ==
    LET s == Bytes(b)
    IN  IF \E i \in 1..Len(s) : s[i] = c
        THEN (CHOOSE i \in 1..Len(s) : s[i] = c /\ \A j \in 1..(i - 1) : s[j] # c) - 1
        ELSE -1

\* The closure indexNewline of stackTrace.
indexNewline(b, start) ==
    IF start >= b.len THEN b.len
    ELSE LET searchBuf == Slice(b, start, b.len)
             index == IndexByte(searchBuf, Newline)
         IN  IF index = -1 THEN b.len ELSE start + index

\* A plausible slip: one line skipped for each entry instead of two.
RECURSIVE SkipLoopOneLine(_, _, _, _)
SkipLoopOneLine(buf, index, i, skip) ==
    IF i < skip
    THEN SkipLoopOneLine(buf, indexNewline(buf, index + 1), i + 1, skip)
    ELSE index

\* for i := 0; i < skip; i++: index when the loop ends.
RECURSIVE SkipLoop(_, _, _, _)
SkipLoop(buf, index, i, skip) ==
    IF i < skip
    THEN SkipLoop(buf, indexNewline(buf, indexNewline(buf, index + 1) + 1), i + 1, skip)
    ELSE index

\* for !isDone: index when the loop ends.
RECURSIVE ScanLoop(_, _, _)
ScanLoop(buf, index, lastIndex) ==
    LET next == indexNewline(buf, index + 1)
    IN  IF (next - lastIndex) <= 1 THEN next ELSE ScanLoop(buf, next, next)

\* stackTrace(skip) called by goroutine g (its own frame is g.frames[1]):
\* whether a slice expression panics, and (current, context) otherwise.
stackTrace(g, skip) ==
    LET buf == StackBuf(g, InitialBufLen)
        first == indexNewline(buf, 0)
        startIndex == SkipLoop(buf, first, 0, skip)
        index == ScanLoop(buf, startIndex, startIndex)
        ok == InRange(buf, 0, first) /\ InRange(buf, startIndex, index)
                  /\ InRange(buf, index, buf.len)
    IN  IF ok
        THEN [panic |-> FALSE,
              current |-> String(Bytes(Slice(buf, 0, first)) \o Bytes(Slice(buf, startIndex, index))),
              context |-> String(Bytes(Slice(buf, index, buf.len)))]
        ELSE [panic |-> TRUE, current |-> "", context |-> ""]

\* StackTrace() called by goroutine g (its own frame is g.frames[2]).
StackTrace(g) == stackTrace(g, PublicSkip)

\* The goroutine while constructor ctor, called with the stack `frames`, is in
\* stackTrace.
Capturing(ctor, g) ==
    [frames |-> <<Func_stackTrace, Func_StackTrace, ctor>> \o g.frames, more |-> g.more]

\* The call stacks of the callers that build errors.
CallerStacks == { << <<"f">> >>, << <<"g", "o">>, <<"f">> >> }

\* What StackTrace() returns to the constructors: the (current, context) pairs
\* for the callers above.
StackTraces ==
    { <<StackTrace(Capturing(ctor, [frames |-> fr, more |-> FALSE])).current,
        StackTrace(Capturing(ctor, [frames |-> fr, more |-> FALSE])).context>> :
          ctor \in Constructors, fr \in CallerStacks }

\* err.(Error): the type assertion succeeds on a non-nil baseError.
IsError(E, err) == err # NilErr /\ E[err].kind = "baseError"

baseError_Message(E, e) == E[e].message

baseError_Stack(E, e) == E[e].stack

baseError_Context(E, e) == E[e].context

baseError_Code(E, e) == E[e].code

baseError_Inner(E, e) == E[e].inner

\* Error() of an error of another package.
ForeignError(E, e) == E[e].text

\* strings.Join(elems, sep)
RECURSIVE JoinLoop(_, _, _, _)
JoinLoop(elems, sep, i, acc) ==
    IF i > Len(elems) THEN acc ELSE JoinLoop(elems, sep, i + 1, acc \o sep \o elems[i])

Join(elems, sep) == IF Len(elems) = 0 THEN "" ELSE JoinLoop(elems, sep, 2, elems[1])

\* A plausible slip: the loop of Message leaving out the text of a cause that is no Error.
RECURSIVE MessageLoopDropsCause(_, _, _)
MessageLoopDropsCause(E, err, ret) ==
    IF err # NilErr
    THEN LET ret1 == Append(ret, baseError_Message(E, err))
             innerErr == baseError_Inner(E, err)
         IN  IF innerErr = NilErr THEN ret1
             ELSE IF IsError(E, innerErr) THEN MessageLoopDropsCause(E, innerErr, ret1)
             ELSE ret1
    ELSE ret

\* The loop of Message, `for err != nil`: the pieces collected.
RECURSIVE MessageLoop(_, _, _)
MessageLoop(E, err, ret) ==
    IF err # NilErr
    THEN LET ret1 == Append(ret, baseError_Message(E, err))
             innerErr == baseError_Inner(E, err)
         IN  IF innerErr = NilErr THEN ret1
             ELSE IF IsError(E, innerErr) THEN MessageLoop(E, innerErr, ret1)
             ELSE Append(ret1, ForeignError(E, innerErr))
    ELSE ret

Message(E, err) ==
    IF IsError(E, err) THEN Join(MessageLoop(E, err, <<>>), " ")
    ELSE IF err # NilErr /\ E[err].kind = "runtime" THEN ForeignError(E, err)
    ELSE "Passed a non-error to Message"

\* A plausible slip: fillErrorInfo keeping the first stack it meets, the outermost.
RECURSIVE fillErrorInfoKeepsOuter(_, _, _, _)
fillErrorInfoKeepsOuter(E, err, errLines, origStack) ==
    IF err = NilErr THEN [errLines |-> errLines, origStack |-> origStack]
    ELSE IF IsError(E, err)
         THEN fillErrorInfoKeepsOuter(E, baseError_Inner(E, err),
                                      Append(errLines, baseError_Message(E, err)),
                                      IF origStack = "" THEN baseError_Stack(E, err) ELSE origStack)
         ELSE [errLines |-> Append(errLines, ForeignError(E, err)), origStack |-> origStack]

\* fillErrorInfo: *errLines and *origStack when it returns.
RECURSIVE fillErrorInfo(_, _, _, _)
fillErrorInfo(E, err, errLines, origStack) ==
    IF err = NilErr THEN [errLines |-> errLines, origStack |-> origStack]
    ELSE IF IsError(E, err)
         THEN fillErrorInfo(E, baseError_Inner(E, err),
                            Append(errLines, baseError_Message(E, err)),
                            baseError_Stack(E, err))
         ELSE [errLines |-> Append(errLines, ForeignError(E, err)), origStack |-> origStack]

\* errLines of DefaultError before strings.Join.
DefaultErrorLines(E, e) ==
    LET r == fillErrorInfo(E, e, <<"ERROR:">>, "")
    IN  Append(Append(Append(r.errLines, ""), "ORIGINAL STACK TRACE:"), r.origStack)

DefaultError(E, e) == Join(DefaultErrorLines(E, e), "\n")

\* baseError.Error
baseError_Error(E, e) == DefaultError(E, e)

\* The constructors: the new value, given what StackTrace() returned.
New(msg, st) ==
    [kind |-> "baseError", message |-> msg, stack |-> st[1], context |-> st[2],
     code |-> DefaultErrCode, inner |-> NilErr]

NewByCode(code, msg, st) ==
    [kind |-> "baseError", message |-> msg, stack |-> st[1], context |-> st[2],
     code |-> code, inner |-> NilErr]

Wrap(err, msg, st) ==
    [kind |-> "baseError", message |-> msg, stack |-> st[1], context |-> st[2],
     code |-> DefaultErrCode, inner |-> err]

WrapByCode(code, err, msg, st) ==
    [kind |-> "baseError", message |-> msg, stack |-> st[1], context |-> st[2],
     code |-> code, inner |-> err]

\* fmt.Sprintf(format, args...) for string arguments and formats whose verbs
\* are %s, %v, %d (a bad verb for a string) and %%, without flags, width or
\* precision: the bytes written from position i of the format on, argNum
\* being the next argument to use. A "%" that ends the format has no verb.
RECURSIVE Extra(_, _)
Extra(args, argNum) ==
    <<"s", "t", "r", "i", "n", "g", "=">> \o args[argNum]
        \o (IF argNum < Len(args) THEN <<",", " ">> \o Extra(args, argNum + 1) ELSE <<>>)

RECURSIVE SprintfLoop(_, _, _, _)
SprintfLoop(format, i, args, argNum) ==
    IF i > Len(format)
    THEN IF argNum <= Len(args)
         THEN <<"%", "!", "(", "E", "X", "T", "R", "A", " ">> \o Extra(args, argNum) \o <<")">>
         ELSE <<>>
    ELSE IF format[i] # "%"
    THEN <<format[i]>> \o SprintfLoop(format, i + 1, args, argNum)
    ELSE IF i = Len(format)
    THEN <<"%", "!", "(", "N", "O", "V", "E", "R", "B", ")">>
             \o SprintfLoop(format, i + 1, args, argNum)
    ELSE CASE format[i + 1] = "%" -> <<"%">> \o SprintfLoop(format, i + 2, args, argNum)
           [] format[i + 1] \in {"s", "v"} ->
                IF argNum <= Len(args)
                THEN args[argNum] \o SprintfLoop(format, i + 2, args, argNum + 1)
                ELSE <<"%", "!", format[i + 1], "(", "M", "I", "S", "S", "I", "N", "G", ")">>
                         \o SprintfLoop(format, i + 2, args, argNum)
           [] format[i + 1] = "d" ->
                IF argNum <= Len(args)
                THEN <<"%", "!", "d", "(", "s", "t", "r", "i", "n", "g", "=">> \o args[argNum] \o <<")">>
                         \o SprintfLoop(format, i + 2, args, argNum + 1)
                ELSE <<"%", "!", "d", "(", "M", "I", "S", "S", "I", "N", "G", ")">>
                         \o SprintfLoop(format, i + 2, args, argNum)

Sprintf(format, args) == String(SprintfLoop(format, 1, args, 1))

Newf(format, args, st) ==
    [kind |-> "baseError", message |-> Sprintf(format, args), stack |-> st[1], context |-> st[2],
     code |-> DefaultErrCode, inner |-> NilErr]

NewfByCode(code, format, args, st) ==
    [kind |-> "baseError", message |-> Sprintf(format, args), stack |-> st[1], context |-> st[2],
     code |-> code, inner |-> NilErr]

Wrapf(err, format, args, st) ==
    [kind |-> "baseError", message |-> Sprintf(format, args), stack |-> st[1], context |-> st[2],
     code |-> DefaultErrCode, inner |-> err]

WrapfByCode(code, err, format, args, st) ==
    [kind |-> "baseError", message |-> Sprintf(format, args), stack |-> st[1], context |-> st[2],
     code |-> code, inner |-> err]

\* A plausible slip: SetCode declared on a value receiver, writing to a copy.
SetCodeOnCopy(E, e, code) == E

\* baseError.SetCode: the error values after it.
SetCode(E, e, code) == [E EXCEPT ![e].code = code]

\* The formats and arguments the callers pass.
Formats ==
    { [format |-> <<"o", "u", "t", "%", "s">>, args |-> << <<"e", "r">> >>],
      [format |-> <<"m", "i", "d", "d", "l", "e">>, args |-> <<>>] }

\* ----------------------------------------------------- the errors program
ErrIds == 1..Len(errs)

ErrInit ==
    /\ SetIdle
    /\ SliceIdle
    /\ errs = <<>>
    /\ errCall = [op |-> "none"]
    /\ goroutine = [frames |-> <<>>, more |-> FALSE]
    /\ stackCall = [op |-> "none"]

ErrFrame == UNCHANGED <<setVars, sliceVars, stackVars>>

\* The caller has consumed the result of its last call.
ErrReady == errCall = [op |-> "none"]

\* An error of another package comes up (fmt.Errorf, a recovered runtime panic).
ForeignErrorf ==
    \E text \in ForeignTexts :
        /\ ErrReady
        /\ Len(errs) < MaxErrs
        /\ errs' = Append(errs, [kind |-> "error", text |-> text])
        /\ errCall' = [op |-> "Errorf", new |-> Len(errs) + 1]
        /\ ErrFrame

RuntimePanic ==
    \E text \in RuntimeTexts :
        /\ ErrReady
        /\ Len(errs) < MaxErrs
        /\ errs' = Append(errs, [kind |-> "runtime", text |-> text])
        /\ errCall' = [op |-> "panic", new |-> Len(errs) + 1]
        /\ ErrFrame

CallNew ==
    \E msg \in Msgs, st \in StackTraces :
        /\ ErrReady
        /\ Len(errs) < MaxErrs
        /\ errs' = Append(errs, New(msg, st))
        /\ errCall' = [op |-> "New", new |-> Len(errs) + 1]
        /\ ErrFrame

CallNewByCode ==
    \E code \in Codes, msg \in Msgs, st \in StackTraces :
        /\ ErrReady
        /\ Len(errs) < MaxErrs
        /\ errs' = Append(errs, NewByCode(code, msg, st))
        /\ errCall' = [op |-> "NewByCode", new |-> Len(errs) + 1, code |-> code]
        /\ ErrFrame

CallWrap ==
    \E err \in ErrIds \cup {NilErr}, msg \in Msgs, st \in StackTraces :
        /\ ErrReady
        /\ Len(errs) < MaxErrs
        /\ errs' = Append(errs, Wrap(err, msg, st))
        /\ errCall' = [op |-> "Wrap", new |-> Len(errs) + 1]
        /\ ErrFrame

CallWrapByCode ==
    \E code \in Codes, err \in ErrIds \cup {NilErr}, msg \in Msgs, st \in StackTraces :
        /\ ErrReady
        /\ Len(errs) < MaxErrs
        /\ errs' = Append(errs, WrapByCode(code, err, msg, st))
        /\ errCall' = [op |-> "WrapByCode", new |-> Len(errs) + 1, code |-> code]
        /\ ErrFrame

CallNewf ==
    \E f \in Formats, st \in StackTraces :
        /\ ErrReady
        /\ Len(errs) < MaxErrs
        /\ errs' = Append(errs, Newf(f.format, f.args, st))
        /\ errCall' = [op |-> "Newf", new |-> Len(errs) + 1]
        /\ ErrFrame

CallNewfByCode ==
    \E code \in Codes, f \in Formats, st \in StackTraces :
        /\ ErrReady
        /\ Len(errs) < MaxErrs
        /\ errs' = Append(errs, NewfByCode(code, f.format, f.args, st))
        /\ errCall' = [op |-> "NewfByCode", new |-> Len(errs) + 1, code |-> code]
        /\ ErrFrame

CallWrapf ==
    \E err \in ErrIds \cup {NilErr}, f \in Formats, st \in StackTraces :
        /\ ErrReady
        /\ Len(errs) < MaxErrs
        /\ errs' = Append(errs, Wrapf(err, f.format, f.args, st))
        /\ errCall' = [op |-> "Wrapf", new |-> Len(errs) + 1]
        /\ ErrFrame

CallWrapfByCode ==
    \E code \in Codes, err \in ErrIds \cup {NilErr}, f \in Formats, st \in StackTraces :
        /\ ErrReady
        /\ Len(errs) < MaxErrs
        /\ errs' = Append(errs, WrapfByCode(code, err, f.format, f.args, st))
        /\ errCall' = [op |-> "WrapfByCode", new |-> Len(errs) + 1, code |-> code]
        /\ ErrFrame

CallSetCode ==
    \E e \in {x \in ErrIds : IsError(errs, x)}, code \in Codes :
        /\ ErrReady
        /\ errs' = SetCode(errs, e, code)
        /\ errCall' = [op |-> "SetCode", arg |-> e, code |-> code, old |-> baseError_Code(errs, e)]
        /\ ErrFrame

CallMessage ==
    \E err \in ErrIds \cup {NilErr} :
        /\ ErrReady
        /\ errCall' = [op |-> "Message", arg |-> err, ret |-> Message(errs, err),
                       pieces |-> IF IsError(errs, err) THEN MessageLoop(errs, err, <<>>) ELSE <<>>]
        /\ UNCHANGED errs
        /\ ErrFrame

CallDefaultError ==
    \E e \in {x \in ErrIds : IsError(errs, x)} :
        /\ ErrReady
        /\ errCall' = [op |-> "DefaultError", arg |-> e, ret |-> baseError_Error(errs, e),
                       lines |-> DefaultErrorLines(errs, e)]
        /\ UNCHANGED errs
        /\ ErrFrame

\* The caller takes the result of its call.
ErrContinue ==
    /\ ~ErrReady
    /\ errCall' = [op |-> "none"]
    /\ UNCHANGED errs
    /\ ErrFrame

ErrNext ==
    \/ ForeignErrorf
    \/ RuntimePanic
    \/ CallNew
    \/ CallNewByCode
    \/ CallWrap
    \/ CallWrapByCode
    \/ CallNewf
    \/ CallNewfByCode
    \/ CallWrapf
    \/ CallWrapfByCode
    \/ CallSetCode
    \/ CallMessage
    \/ CallDefaultError
    \/ ErrContinue

SpecErr == ErrInit /\ [][ErrNext]_vars

\* --------------------------------------------------------- errors: claims
\* The chain of e: e, its Inner(), the Inner() of that, ..., up to and with the
\* first value whose Inner() is nil or that is no Error.
RECURSIVE Chain(_)
Chain(e) ==
    IF errs[e].kind # "baseError" \/ errs[e].inner = NilErr
    THEN <<e>>
    ELSE <<e>> \o Chain(errs[e].inner)

\* Message() of an Error of the chain, Error() of a cause that is none.
PieceOf(e) == IF errs[e].kind = "baseError" THEN errs[e].message ELSE errs[e].text

\* The pieces of the values ids, each followed by one space but the last.
RECURSIVE Spaced(_)
Spaced(ids) ==
    IF Len(ids) = 1 THEN PieceOf(ids[1]) ELSE PieceOf(ids[1]) \o " " \o Spaced(Tail(ids))

\* C10: for an Error e1, Message(e1) is the Message() of each Error of the
\* chain from the outermost inward, then the Error() text of a cause that is
\* no Error, once, as the last piece: one piece per value of the chain, in
\* order, joined by single spaces.
C10_MessageChain ==
    (errCall.op = "Message" /\ IsError(errs, errCall.arg)) =>
        LET chain == Chain(errCall.arg)
        IN  /\ Len(errCall.pieces) = Len(chain)
            /\ \A j \in 1..Len(chain) : errCall.pieces[j] = PieceOf(chain[j])
            /\ errCall.ret = Spaced(chain)

\* Message of an Error wrapping an Error wrapping an error of another package.
C10_Witness ==
    /\ errCall.op = "Message"
    /\ IsError(errs, errCall.arg)
    /\ Len(Chain(errCall.arg)) = 3
    /\ errs[Chain(errCall.arg)[3]].kind = "error"
    /\ errCall.ret = "outer middle inner"

\* The innermost Error of a chain: its last value that is an Error.
InnermostError(chain) ==
    IF errs[chain[Len(chain)]].kind = "baseError" THEN chain[Len(chain)] ELSE chain[Len(chain) - 1]

\* The lines, each followed by a newline but the last.
RECURSIVE Lined(_)
Lined(lines) ==
    IF Len(lines) = 1 THEN lines[1] ELSE lines[1] \o "\n" \o Lined(Tail(lines))

\* C11: for an Error e, DefaultError(e), which is e.Error(), is the lines
\* "ERROR:", one entry per value of the cause chain from the outermost to the
\* innermost (the Error() text of a cause that is no Error last), an empty
\* line, "ORIGINAL STACK TRACE:" and the Stack() of the innermost Error of the
\* chain, joined by newlines.
C11_DefaultErrorLines ==
    errCall.op = "DefaultError" =>
        LET chain == Chain(errCall.arg)
            n == Len(chain)
        IN  /\ Len(errCall.lines) = n + 4
            /\ errCall.lines[1] = "ERROR:"
            /\ \A j \in 1..n : errCall.lines[j + 1] = PieceOf(chain[j])
            /\ errCall.lines[n + 2] = ""
            /\ errCall.lines[n + 3] = "ORIGINAL STACK TRACE:"
            /\ errCall.lines[n + 4] = errs[InnermostError(chain)].stack
            /\ errCall.ret = Lined(errCall.lines)

\* Error() of an Error wrapping an Error built elsewhere that wraps an error of
\* another package: the stack reported is the second one's, not the wrapper's.
C11_Witness ==
    /\ errCall.op = "DefaultError"
    /\ Len(Chain(errCall.arg)) = 3
    /\ errs[Chain(errCall.arg)[3]].kind = "error"
    /\ errs[Chain(errCall.arg)[2]].stack # errs[errCall.arg].stack
    /\ errCall.lines[7] = errs[Chain(errCall.arg)[2]].stack

\* One step of the errors program, as C12 describes it.
C12_Step ==
    /\ Len(errs') >= Len(errs)
    /\ \A e \in ErrIds :
          /\ errs'[e].kind = errs[e].kind
          /\ errs[e].kind # "baseError" => errs'[e] = errs[e]
          /\ errs[e].kind = "baseError" =>
                /\ baseError_Message(errs', e) = baseError_Message(errs, e)
                /\ baseError_Stack(errs', e) = baseError_Stack(errs, e)
                /\ baseError_Context(errs', e) = baseError_Context(errs, e)
                /\ baseError_Inner(errs', e) = baseError_Inner(errs, e)
                /\ baseError_Code(errs', e) # baseError_Code(errs, e) =>
                       errCall'.op = "SetCode" /\ errCall'.arg = e
    /\ errCall'.op = "SetCode" =>
          /\ Len(errs') = Len(errs)
          /\ baseError_Code(errs', errCall'.arg) = errCall'.code
    /\ Len(errs') = Len(errs) + 1 =>
          /\ errCall'.op \in {"New", "Newf", "Wrap", "Wrapf"} =>
                 baseError_Code(errs', Len(errs')) = DefaultErrCode
          /\ errCall'.op \in {"NewByCode", "NewfByCode", "WrapByCode", "WrapfByCode"} =>
                 baseError_Code(errs', Len(errs')) = errCall'.code

\* C12: an error built by New, Newf, Wrap or Wrapf has the code -1, one built
\* by a ...ByCode constructor the code passed in; no call changes Message(),
\* Stack(), Context() or Inner() of an error already built; SetCode(c) changes
\* the Code() of its receiver to c and nothing else; wrapping an error changes
\* nothing in it.
C12_CodeAndFrame == [][C12_Step]_vars

\* SetCode gave a new code to an error that another error wraps.
C12_Witness ==
    /\ errCall.op = "SetCode"
    /\ errCall.old # errCall.code
    /\ baseError_Code(errs, errCall.arg) = errCall.code
    /\ \E w \in ErrIds : IsError(errs, w) /\ baseError_Inner(errs, w) = errCall.arg

\* ------------------------------------------------------------ stack capture: the program
\* The goroutines that call into the package.
RECURSIVE CallStacks(_)
CallStacks(n) ==
    IF n = 0 THEN { <<>> }
    ELSE CallStacks(n - 1)
             \cup { <<fn>> \o fr : fn \in CallerFuncs, fr \in {s \in CallStacks(n - 1) : Len(s) = n - 1} }

Goroutines == [frames : CallStacks(MaxFrames) \ { <<>> }, more : BOOLEAN]

StackInit ==
    /\ SetIdle
    /\ SliceIdle
    /\ errs = <<>>
    /\ errCall = [op |-> "none"]
    /\ goroutine \in Goroutines
    /\ stackCall = [op |-> "none"]

StackFrame == UNCHANGED <<setVars, sliceVars, errVars>>

\* The caller calls a function of its own, or returns from one.
CallerCalls ==
    \E fn \in CallerFuncs :
        /\ Len(goroutine.frames) < MaxFrames
        /\ goroutine' = [goroutine EXCEPT !.frames = <<fn>> \o @]
        /\ stackCall' = [op |-> "none"]
        /\ StackFrame

CallerReturns ==
    /\ Len(goroutine.frames) > 1
    /\ goroutine' = [goroutine EXCEPT !.frames = Tail(@)]
    /\ stackCall' = [op |-> "none"]
    /\ StackFrame

\* stackTrace(skip), called from the caller's innermost function.
Call_stackTrace ==
    \E skip \in 0..MaxSkip :
        LET g == [goroutine EXCEPT !.frames = <<Func_stackTrace>> \o @]
            r == stackTrace(g, skip)
        IN  /\ stackCall' = [op |-> "stackTrace", skip |-> skip, g |-> g, panic |-> r.panic,
                             current |-> r.current, context |-> r.context]
            /\ UNCHANGED goroutine
            /\ StackFrame

\* A constructor, called from the caller's innermost function, captures the
\* stack with StackTrace().
CallStackTrace ==
    \E ctor \in Constructors :
        LET g == Capturing(ctor, goroutine)
            r == StackTrace(g)
        IN  /\ stackCall' = [op |-> "StackTrace", skip |-> PublicSkip, g |-> g, panic |-> r.panic,
                             current |-> r.current, context |-> r.context]
            /\ UNCHANGED goroutine
            /\ StackFrame

StackNext ==
    \/ CallerCalls
    \/ CallerReturns
    \/ Call_stackTrace
    \/ CallStackTrace

SpecStack == StackInit /\ [][StackNext]_vars

\* ------------------------------------------------------------ stack capture: the claim
\* The lines but those numbered from..to.
Without(lines, from, to) ==
    LET keep == {i \in 1..Len(lines) : i < from \/ i > to}
        F[i \in 0..Len(lines)] ==
            IF i = 0 THEN <<>> ELSE IF i \in keep THEN Append(F[i - 1], lines[i]) ELSE F[i - 1]
    IN  F[Len(lines)]

\* The lines of a dump from its first empty line on.
FromEmptyLine(lines) ==
    IF \E i \in 1..Len(lines) : lines[i] = <<>>
    THEN SubSeq(lines, CHOOSE i \in 1..Len(lines) : lines[i] = <<>> /\ \A j \in 1..(i - 1) : lines[j] # <<>>,
                Len(lines))
    ELSE <<>>

\* C13: for a dump made of a header line and two-line frame entries,
\* stackTrace(skip) never indexes past the dump, however few entries it holds;
\* when the dump holds at least `skip` entries, the stack is the header line
\* followed by the lines after the first `skip` entries up to the first empty
\* line or the end of the dump, the context is the dump from there on, and
\* the stack followed by the context is the dump without the 2*skip lines of
\* those entries. With the skip depth 3 of StackTrace, the stack of an error
\* built by a constructor is the header and the frames of the constructor's
\* caller on: those of stackTrace, StackTrace and the constructor are left out.
C13_StackTrace ==
    stackCall.op # "none" =>
        LET g == stackCall.g
            skip == stackCall.skip
            n == Len(g.frames)
            lines == DumpLines(g)
        IN  /\ ~stackCall.panic
            /\ n >= skip =>
                  /\ stackCall.current =
                         String(Text(<<GoroutineHeader("1")>> \o FramesLines(SubSeq(g.frames, skip + 1, n))))
                  /\ stackCall.context = String(Text(FromEmptyLine(lines)))
                  /\ stackCall.current \o stackCall.context =
                         String(Text(Without(lines, 2, 2 * skip + 1)))
            /\ (n < skip /\ ~g.more) =>
                  /\ stackCall.current = String(GoroutineHeader("1"))
                  /\ stackCall.context = ""
            /\ stackCall.op = "StackTrace" =>
                  /\ g.frames[1] = Func_stackTrace
                  /\ g.frames[2] = Func_StackTrace
                  /\ g.frames[3] \in Constructors
                  /\ stackCall.current =
                         String(Text(<<GoroutineHeader("1")>> \o FramesLines(goroutine.frames)))

\* stackTrace(2) on a dump of more than two entries followed by an empty line
\* and another goroutine: a stack of the later entries, a context that starts
\* at the empty line.
C13_Witness ==
    /\ stackCall.op = "stackTrace"
    /\ stackCall.skip = 2
    /\ Len(stackCall.g.frames) > 2
    /\ stackCall.g.more
    /\ ~stackCall.panic
    /\ stackCall.current # String(GoroutineHeader("1"))
    /\ stackCall.context # ""

====
